---- MODULE Spec2Model ----
(***************************************************************************)
(* Model of the market-data ingestor: the router (Ingestor.py), the        *)
(* Polygon adapter (Polygon_Client.py) and the Alpha Vantage adapter       *)
(* (alpha_vantage_client.py).                                              *)
(*                                                                         *)
(* Python dicts are functions from a finite set of string keys; a Python   *)
(* object that can be aliased (the caller's request) lives in `heap` and   *)
(* is passed around by reference (the name of its heap cell).              *)
(***************************************************************************)
EXTENDS Integers, Sequences, FiniteSets, TLC

VARIABLES
    pc,                 \* position of the single (synchronous) thread of control
    op,                 \* the operation the caller invoked: "process_features", "fetch_data" or "none"
    clients,            \* Ingestor.clients: provider name -> adapter class
    heap,               \* heap.caller: the caller's request object; heap.copy: original_features
    entry,              \* the caller's request object as it was on entry (history)
    api_choice,         \* local of process_features
    fetch_arg,          \* reference handed to client.fetch_data ("caller", "copy" or "none")
    endpoint_type,      \* local of PolygonClient.fetch_data
    attempts,           \* local of PolygonClient.fetch_data
    last_exc,           \* `e` of the except clause
    raw_data_package,   \* envelope returned by fetch_data
    parsed,             \* (results, gathered_features) returned by parse_response
    outcome,            \* what the caller of the operation gets: a return value or an exception
    log                 \* history: provider calls, sleeps and adapter stages, in order

vars == <<pc, op, clients, heap, entry, api_choice, fetch_arg, endpoint_type, attempts,
          last_exc, raw_data_package, parsed, outcome, log>>

----------------------------------------------------------------------------
(* Bounds of the model *)

\* largest endpoint_type value a request may carry (values run from -1)
MaxEndpointValue == 4
\* largest number of records in a provider response
MaxRecs == 2
\* largest number of requests in a list handed to process_features
MaxBatch == 2

----------------------------------------------------------------------------
(* Python dict helpers *)

None == [type |-> "None"]
EmptyDict == [k \in {} |-> "x"]

\* dict.get(k, default)
Get(d, k, default) == IF k \in DOMAIN d THEN d[k] ELSE default

\* the dict after dict.pop(k, default)
Popped(d, k) == [x \in (DOMAIN d) \ {k} |-> d[x]]

\* dict.copy(): a new object with the same items
Copy(d) == [x \in DOMAIN d |-> d[x]]

Exc(t, m) == [type |-> t, msg |-> <<m>>]

----------------------------------------------------------------------------
(* Inputs *)

Providers == {"polygon", "alpha_vantage", "bogus"}
EndpointValues == (0 - 1) .. MaxEndpointValue

\* keys every modelled Polygon request carries
FixedItems == [k \in {"from", "multiplier", "timespan", "to"} |->
                 CASE k = "from" -> "2025-01-03"
                   [] k = "multiplier" -> "1"
                   [] k = "timespan" -> "day"
                   [] k = "to" -> "2025-02-25"]

OptionalKeys == {"api", "ticker", "endpoint_type"}

RequestWith(ks, api, et) ==
    [k \in DOMAIN FixedItems \cup ks |->
        CASE k = "api" -> api
          [] k = "ticker" -> "AAPL"
          [] k = "endpoint_type" -> et
          [] OTHER -> FixedItems[k]]

\* FeatureRequest dictionaries handed to the router
Requests ==
    { RequestWith(ks, api, et) :
        ks \in SUBSET OptionalKeys, api \in Providers, et \in EndpointValues }

\* a list of requests (a batch)
RECURSIVE SeqsUpTo(_, _)
SeqsUpTo(S, n) ==
    IF n = 0 THEN {<<>>}
    ELSE LET shorter == SeqsUpTo(S, n - 1)
         IN shorter \cup { Append(s, x) : s \in {t \in shorter : Len(t) = n - 1}, x \in S }

BatchSample == { RequestWith({"api", "ticker", "endpoint_type"}, api, 0) :
                   api \in {"polygon", "alpha_vantage"} }

Inputs == { [kind |-> "dict", val |-> r] : r \in Requests }
          \cup { [kind |-> "list", val |-> s] : s \in SeqsUpTo(BatchSample, MaxBatch) \ {<<>>} }

----------------------------------------------------------------------------
(* Provider side of the Polygon REST client *)

\* records of a response: the set of fields each carries
Rec1 == [id |-> 1, fields |-> {"c", "o", "t", "v"}]
Rec2 == [id |-> 2, fields |-> {"T", "c", "o", "t", "v"}]
Records == {Rec1, Rec2}

Shapes == {"dict_results", "dict_flat", "list", "object_results", "object_flat"}

Responses ==
    { [shape |-> sh, recs |-> rs] :
        sh \in {"dict_results", "list", "object_results"},
        rs \in SeqsUpTo(Records, MaxRecs) }
    \cup { [shape |-> sh, recs |-> <<r>>] :
             sh \in {"dict_flat", "object_flat"}, r \in Records }

\* exceptions the REST client can raise
ProviderExceptions == { Exc("ConnectionError", "connection reset"),
                        Exc("BadResponse", "429 too many requests") }

----------------------------------------------------------------------------
(* Polygon adapter: fetch_data *)

max_attempts == 3
delay == 2

\* endpoint_mapping: the provider method each endpoint_type selects and the
\* request keys its lambda reads before the provider is invoked
endpoint_mapping ==
    [e \in 0 .. 3 |->
        CASE e = 0 -> [method |-> "get_aggs",
                       reads |-> {"ticker", "multiplier", "timespan", "from", "to"}]
          [] e = 1 -> [method |-> "get_grouped_daily_aggs", reads |-> {"from"}]
          [] e = 2 -> [method |-> "get_daily_open_close_agg", reads |-> {"ticker", "from"}]
          [] e = 3 -> [method |-> "get_previous_close_agg", reads |-> {"ticker"}]]

\* faulty variant: every endpoint_type is served by the aggregate-bars call
EndpointFor_AlwaysAggs(e) == endpoint_mapping[0]

\* endpoint_mapping[endpoint_type]
EndpointFor(e) == endpoint_mapping[e]

\* `endpoint_type not in endpoint_mapping`
InvalidEndpoint(e) == e \notin DOMAIN endpoint_mapping

\* the envelope fetch_data returns: the response and the features object itself
Envelope(response, ref) == [data |-> response, features |-> ref]

\* faulty variant: the retry gives up one attempt early
AfterFailure_GiveUpEarly(n) == IF n >= max_attempts - 1 THEN "raise" ELSE "sleep"

\* the except clause after `attempts += 1`: give up or retry after a sleep
AfterFailure(n) == IF n = max_attempts THEN "raise" ELSE "sleep"

\* faulty variant: the caught exception is wrapped in a new one
Reraised_Wrapped(e) == [type |-> "RuntimeError", msg |-> <<"Request failed", e.type>>]

\* what the caught exception becomes when it is re-raised (`raise e`)
Reraised(e) == e

CallEvent(m, inv, ok, v) == [op |-> "call", method |-> m, invoked |-> inv, ok |-> ok, val |-> v]
SleepEvent(secs) == [op |-> "sleep", secs |-> secs]
StageEvent(name, cl) == [op |-> "stage", name |-> name, client |-> cl]

\* faulty variant: the statistics stage is left out
StageAfter_SkipStatistics(stage) ==
    CASE stage = "fetch_data" -> "polygon_parse"
      [] stage = "parse_response" -> "returned"
      [] stage = "compute_statistics" -> "returned"

\* Ingestor.process_features lines 31-38: where control goes when a stage of
\* the Polygon adapter has returned normally
StageAfter(stage) ==
    CASE stage = "fetch_data" -> "polygon_parse"
      [] stage = "parse_response" -> "polygon_stats"
      [] stage = "compute_statistics" -> "returned"

\* lines 23-49: build the mapping, validate endpoint_type, attempts = 0
polygon_fetch_data_begin ==
    /\ pc = "polygon_fetch"
    /\ LET features == heap[fetch_arg].val
           et == Get(features, "endpoint_type", 0)
       IN /\ endpoint_type' = et
          /\ log' = Append(log, StageEvent("fetch_data", "PolygonClient"))
          /\ IF InvalidEndpoint(et)
             THEN /\ pc' = "raised"
                  /\ outcome' = [kind |-> "raise", exc |-> Exc("ValueError", "Invalid endpoint_type")]
                  /\ UNCHANGED attempts
             ELSE /\ pc' = "polygon_attempt"
                  /\ attempts' = 0
                  /\ UNCHANGED outcome
    /\ UNCHANGED <<op, clients, heap, entry, api_choice, fetch_arg, last_exc, raw_data_package, parsed>>

\* the handling of a failed attempt (lines 56-62, up to the sleep)
Failed(m, inv, e) ==
    /\ attempts' = attempts + 1
    /\ last_exc' = e
    /\ log' = Append(log, CallEvent(m, inv, FALSE, e))
    /\ IF AfterFailure(attempts + 1) = "raise"
       THEN /\ pc' = "raised"
            /\ outcome' = [kind |-> "raise", exc |-> Reraised(e)]
       ELSE /\ pc' = "polygon_sleep"
            /\ UNCHANGED outcome
    /\ UNCHANGED raw_data_package

\* one iteration of the while loop (lines 51-62): the lambda reads its keys, the
\* provider is invoked and either answers or raises
polygon_fetch_attempt ==
    /\ pc = "polygon_attempt"
    /\ attempts < max_attempts
    /\ LET features == heap[fetch_arg].val
           ep == EndpointFor(endpoint_type)
       IN IF ~(ep.reads \subseteq DOMAIN features)
          THEN \* f['ticker'] raises KeyError inside the try block
               Failed(ep.method, FALSE, Exc("KeyError", "ticker"))
          ELSE \/ \E response \in Responses :
                    /\ raw_data_package' = Envelope(response, fetch_arg)
                    /\ log' = Append(log, CallEvent(ep.method, TRUE, TRUE, response))
                    /\ pc' = StageAfter("fetch_data")
                    /\ UNCHANGED <<attempts, last_exc, outcome>>
               \/ \E e \in ProviderExceptions : Failed(ep.method, TRUE, e)
    /\ UNCHANGED <<op, clients, heap, entry, api_choice, fetch_arg, endpoint_type, parsed>>

\* time.sleep(delay) (line 62), then back to the loop head
polygon_fetch_sleep ==
    /\ pc = "polygon_sleep"
    /\ log' = Append(log, SleepEvent(delay))
    /\ pc' = "polygon_attempt"
    /\ UNCHANGED <<op, clients, heap, entry, api_choice, fetch_arg, endpoint_type, attempts,
                   last_exc, raw_data_package, parsed, outcome>>

----------------------------------------------------------------------------
(* Polygon adapter: parse_response and compute_statistics *)

parse_aggs == <<"volume", "vwap", "open_price", "close_price", "high_price",
                "low_price", "timestamp", "transactions">>
parse_grouped_daily == <<"company_identifier", "volume", "vwap", "open_price",
                         "close_price", "high_price", "low_price", "timestamp",
                         "transactions">>
parse_daily_open_close == <<"open_price", "close_price", "high_price", "company_identifier">>

\* parsers: endpoint_type -> the fixed list of declared features
parsers == [e \in 0 .. 3 |->
              CASE e = 0 -> parse_aggs
                [] e = 1 -> parse_grouped_daily
                [] e = 2 -> parse_daily_open_close
                [] e = 3 -> parse_aggs]

\* lines 117-118: an object that is neither dict nor list is replaced by its __dict__
AsDictOrList(response) ==
    CASE response.shape = "object_results" -> [response EXCEPT !.shape = "dict_results"]
      [] response.shape = "object_flat" -> [response EXCEPT !.shape = "dict_flat"]
      [] OTHER -> response

\* faulty variant: only the first record under `results` is kept
ExtractRecords_FirstOnly(response) ==
    CASE response.shape = "dict_results" ->
           IF response.recs = <<>> THEN <<>> ELSE <<Head(response.recs)>>
      [] response.shape = "dict_flat" -> <<response.recs[1]>>
      [] response.shape = "list" -> response.recs

\* lines 121-132: the list of records of a dict or list response
ExtractRecords(response) ==
    CASE response.shape = "dict_results" -> response.recs   \* response["results"]
      [] response.shape = "dict_flat" -> <<response.recs[1]>>  \* [response]
      [] response.shape = "list" -> response.recs

\* pd.DataFrame(results): one row per record, the columns are the fields met
DataFrame(results) ==
    [rows |-> results,
     columns |-> UNION { results[i].fields : i \in 1 .. Len(results) }]

\* columns pandas cannot take moments of (the ticker symbol 'T')
NonNumeric == {"T"}

\* the statistics dictionary of compute_statistics
Statistics(df) ==
    [descriptive_stats |-> df.columns \ NonNumeric,
     missing_values |-> df.columns,
     skewness |-> df.columns \ NonNumeric,
     kurtosis |-> df.columns \ NonNumeric]

----------------------------------------------------------------------------
(* Alpha Vantage adapter: inputs and the HTTP side *)

AVTimespans == {"day", "week", "month", "5min", "60min", "5MIN", "hour"}
IntradayTimespans == {"1min", "5min", "15min", "30min", "60min"}

\* str.lower() on the timespans of the model
Lower(s) == IF s = "5MIN" THEN "5min" ELSE s

AVRequestWith(ks, ts, os) ==
    [k \in ks |->
        CASE k = "ticker" -> "IBM"
          [] k = "timespan" -> ts
          [] k = "outputsize" -> os
          [] k = "month" -> "2024-01"]

\* `columns` lists a caller may ask for
ColumnChoices == { <<"close", "bogus">>, <<"volume", "open">>, <<"dividend", "close">>, <<>> }

\* requests that name the columns they want
AVColumnRequests ==
    { [k \in {"ticker", "timespan", "columns"} |->
          CASE k = "ticker" -> "IBM"
            [] k = "timespan" -> "5min"
            [] k = "columns" -> cols] : cols \in ColumnChoices }

\* features dictionaries handed to AlphaVantageClient.fetch_data
AVRequests ==
    { AVRequestWith(ks, ts, os) :
        ks \in SUBSET {"ticker", "timespan", "outputsize", "month"},
        ts \in AVTimespans, os \in {"compact", "full"} }
    \cup AVColumnRequests

\* the keys of a JSON payload, in the order the payload lists them
PayloadKeyOrder == <<"Meta Data", "Time Series (5min)", "Error Message", "Note">>
PayloadKeys == { PayloadKeyOrder[i] : i \in 1 .. Len(PayloadKeyOrder) }

\* `"Time Series" in key`
HasTimeSeriesMarker(key) == key \in {"Time Series (5min)", "Time Series (Daily)",
                                     "Weekly Time Series", "Monthly Time Series"}

\* `"API call frequency" in note`
HasRateLimitMarker(note) == note = "Thank you. Our standard API call frequency is 25 per day."

\* time series: the dates of the index as sent, and the raw field names of a point
TimeSeriesValues ==
    { [index |-> <<>>, fields |-> <<>>],
      [index |-> <<2, 1>>,
       fields |-> <<"1. open", "2. high", "3. low", "4. close", "5. volume">>],
      [index |-> <<1>>, fields |-> <<"1. open", "4. close", "6. dividend">>] }

MetaDataValues == { [index |-> <<>>, fields |-> <<>>],
                    [index |-> <<>>, fields |-> <<"1. Information", "2. Symbol">>] }

PayloadValue(k, meta, ts, note) ==
    CASE k = "Meta Data" -> [kind |-> "dict", table |-> meta, text |-> ""]
      [] k = "Time Series (5min)" -> [kind |-> "dict", table |-> ts, text |-> ""]
      [] k = "Error Message" ->
           [kind |-> "str", table |-> [index |-> <<>>, fields |-> <<>>],
            text |-> "Invalid API call."]
      [] k = "Note" -> [kind |-> "str", table |-> [index |-> <<>>, fields |-> <<>>],
                        text |-> note]

\* JSON objects the provider may answer with ({} included)
Payloads ==
    { [k \in ks |-> PayloadValue(k, meta, ts, note)] :
        ks \in SUBSET PayloadKeys, meta \in MetaDataValues, ts \in TimeSeriesValues,
        note \in {"Thank you. Our standard API call frequency is 25 per day.",
                  "Please consider a premium plan."} }

StatusCodes == {200, 300, 404, 503}

\* what requests.get can end with: no response at all, or a status and a body
HttpOutcomes ==
    { [kind |-> "no_response", status |-> 0, json |-> FALSE, body |-> EmptyDict] }
    \cup { [kind |-> "response", status |-> st, json |-> FALSE, body |-> EmptyDict] :
             st \in StatusCodes }
    \cup { [kind |-> "response", status |-> st, json |-> TRUE, body |-> b] :
             st \in StatusCodes, b \in Payloads }

----------------------------------------------------------------------------
(* Alpha Vantage adapter: fetch_data *)

\* lines 46-73: the outgoing query parameters, or the unsupported-timespan error
\* (features['ticker'] is read first and raises KeyError when absent)
BaseParams == [k \in {"symbol", "apikey", "datatype"} |->
                 CASE k = "symbol" -> "IBM" [] k = "apikey" -> "key" [] k = "datatype" -> "json"]

With(d, k, v) == [x \in DOMAIN d \cup {k} |-> IF x = k THEN v ELSE d[x]]

\* line 71: the output size of an intraday request that names a month
MonthOutputSize(features) == Get(features, "outputsize", "full")

IntradayParams(features, timespan) ==
    LET p1 == With(With(With(BaseParams, "function", "TIME_SERIES_INTRADAY"),
                        "interval", timespan),
                   "outputsize", Get(features, "outputsize", "compact"))
    IN IF "month" \in DOMAIN features
       THEN With(With(p1, "month", features["month"]),
                 "outputsize", MonthOutputSize(features))
       ELSE p1

SeriesParams(features, fn) ==
    With(With(BaseParams, "function", fn), "outputsize", Get(features, "outputsize", "full"))

BuildParams(features) ==
    IF "ticker" \notin DOMAIN features
    THEN [ok |-> FALSE, params |-> EmptyDict, exc |-> Exc("KeyError", "ticker")]
    ELSE LET timespan == Lower(Get(features, "timespan", "day"))
         IN CASE timespan = "day" ->
                   [ok |-> TRUE, params |-> SeriesParams(features, "TIME_SERIES_DAILY"), exc |-> None]
              [] timespan = "week" ->
                   [ok |-> TRUE, params |-> SeriesParams(features, "TIME_SERIES_WEEKLY"), exc |-> None]
              [] timespan = "month" ->
                   [ok |-> TRUE, params |-> SeriesParams(features, "TIME_SERIES_MONTHLY"), exc |-> None]
              [] timespan \in IntradayTimespans ->
                   [ok |-> TRUE, params |-> IntradayParams(features, timespan), exc |-> None]
              [] OTHER ->
                   [ok |-> FALSE, params |-> EmptyDict,
                    exc |-> Exc("ValueError", "Unsupported timespan for Alpha Vantage")]

\* faulty variant: only server errors are rejected
RaisesForStatus_ServerOnly(status) == 500 <= status /\ status < 600

\* response.raise_for_status(): HTTPError for 4XX and 5XX
RaisesForStatus(status) == 400 <= status /\ status < 600

\* lines 76-90 on one HTTP outcome: the exception raised, or None
FetchError(http) ==
    CASE http.kind = "no_response" -> Exc("ConnectionError", "HTTP Request failed")
      [] RaisesForStatus(http.status) -> Exc("HTTPError", "bad status")
      [] ~http.json -> Exc("JSONDecodeError", "Expecting value")
      [] DOMAIN http.body = {} -> Exc("ValueError", "Alpha Vantage API returned an empty response.")
      [] "Error Message" \in DOMAIN http.body ->
           [type |-> "ValueError",
            msg |-> <<"Alpha Vantage API Error: ", http.body["Error Message"].text>>]
      [] OTHER -> None

\* lines 86-87: the rate-limit warning is printed
RateLimitWarned(data) ==
    "Note" \in DOMAIN data /\ HasRateLimitMarker(data["Note"].text)

HttpEvent(params, http) == [op |-> "http_get", params |-> params, http |-> http]
WarnEvent(text) == [op |-> "warning", text |-> text]

\* AlphaVantageClient.fetch_data, whole: build the parameters, one requests.get,
\* classify the answer
av_fetch_data ==
    /\ pc = "av_fetch"
    /\ LET features == heap[fetch_arg].val
           built == BuildParams(features)
           started == Append(log, StageEvent("fetch_data", "AlphaVantageClient"))
       IN IF ~built.ok
          THEN /\ pc' = "raised"
               /\ outcome' = [kind |-> "raise", exc |-> built.exc]
               /\ log' = started
               /\ UNCHANGED raw_data_package
          ELSE \E http \in HttpOutcomes :
                 LET got == Append(started, HttpEvent(built.params, http))
                     err == FetchError(http)
                 IN IF err # None
                    THEN /\ pc' = "raised"
                         /\ outcome' = [kind |-> "raise", exc |-> err]
                         /\ log' = got
                         /\ UNCHANGED raw_data_package
                    ELSE /\ pc' = "av_parse"
                         /\ raw_data_package' = Envelope(http.body, fetch_arg)
                         /\ log' = IF RateLimitWarned(http.body)
                                   THEN Append(got, WarnEvent("rate limit"))
                                   ELSE got
                         /\ UNCHANGED outcome
    /\ UNCHANGED <<op, clients, heap, entry, api_choice, fetch_arg, endpoint_type, attempts,
                   last_exc, parsed>>

----------------------------------------------------------------------------
(* Alpha Vantage adapter: parse_response *)

_standard_columns == <<"open", "high", "low", "close", "volume">>

SeqToSet(q) == { q[i] : i \in 1 .. Len(q) }

\* `x.split('. ')[1] if '. ' in x else x` on the field names of the model
StripPrefix(x) ==
    CASE x = "1. open" -> "open"
      [] x = "2. high" -> "high"
      [] x = "3. low" -> "low"
      [] x = "4. close" -> "close"
      [] x = "5. volume" -> "volume"
      [] x = "6. dividend" -> "dividend"
      [] OTHER -> x

Renamed(fields) == [i \in 1 .. Len(fields) |-> StripPrefix(fields[i])]

\* sort_index(): ascending
RECURSIVE Insert(_, _)
Insert(q, x) ==
    IF q = <<>> THEN <<x>>
    ELSE IF x <= Head(q) THEN <<x>> \o q ELSE <<Head(q)>> \o Insert(Tail(q), x)

RECURSIVE SortIndex(_)
SortIndex(q) == IF q = <<>> THEN <<>> ELSE Insert(SortIndex(Tail(q)), Head(q))

\* lines 124-128: the first key of the payload that carries the marker, or "" for None
RECURSIVE FirstMarked(_, _)
FirstMarked(data, i) ==
    IF i > Len(PayloadKeyOrder) THEN ""
    ELSE IF PayloadKeyOrder[i] \in DOMAIN data /\ HasTimeSeriesMarker(PayloadKeyOrder[i])
         THEN PayloadKeyOrder[i]
         ELSE FirstMarked(data, i + 1)

TimeSeriesKey(data) == FirstMarked(data, 1)

\* faulty variant: the presence of the key is taken for metadata
HasMetaData_KeyOnly(data) == "Meta Data" \in DOMAIN data

\* data.get("Meta Data") as a condition: present and not empty
HasMetaData(data) ==
    "Meta Data" \in DOMAIN data /\ data["Meta Data"].table.fields # <<>>

EmptyFrame == [index |-> <<>>, columns |-> <<>>]

\* faulty variant: the requested columns are returned without looking at the frame
ParseTimeSeries_NoFilter(table, columns_to_include) ==
    [results |-> [index |-> SortIndex(table.index), columns |-> columns_to_include],
     gathered_features |-> columns_to_include]

\* lines 138-163: the frame and the column list of a payload with a time series
ParseTimeSeries(table, columns_to_include) ==
    LET renamed == Renamed(table.fields)
        InFrame(c) == c \in SeqToSet(renamed)
        available_standard_cols == SelectSeq(_standard_columns, InFrame)
        IsAvailable(c) == c \in SeqToSet(available_standard_cols)
        final_columns == SelectSeq(columns_to_include, IsAvailable)
    IN [results |-> [index |-> SortIndex(table.index), columns |-> final_columns],
        gathered_features |-> final_columns]

\* AlphaVantageClient.parse_response: which branch is taken and what it gives
ParseResponse(data, requested_features) ==
    LET columns_to_include == Get(requested_features, "columns", _standard_columns)
        time_series_key == TimeSeriesKey(data)
    IN IF time_series_key = ""
       THEN IF HasMetaData(data)
            THEN [branch |-> "empty", exc |-> None,
                  val |-> [results |-> EmptyFrame, gathered_features |-> <<>>]]
            ELSE [branch |-> "malformed",
                  exc |-> Exc("ValueError", "Could not find time series data key"),
                  val |-> [results |-> EmptyFrame, gathered_features |-> <<>>]]
       ELSE [branch |-> "series", exc |-> None,
             val |-> ParseTimeSeries(data[time_series_key].table, columns_to_include)]

\* parse_response on the envelope of fetch_data; through the router the next
\* line asks the adapter for compute_statistics, which this class does not define
av_parse_response ==
    /\ pc = "av_parse"
    /\ LET r == ParseResponse(raw_data_package.data, heap[raw_data_package.features].val)
           started == Append(log, StageEvent("parse_response", "AlphaVantageClient"))
       IN /\ log' = IF r.branch = "empty"
                    THEN Append(started, WarnEvent("No time series data found"))
                    ELSE started
          /\ IF r.exc # None
             THEN /\ pc' = "raised"
                  /\ outcome' = [kind |-> "raise", exc |-> r.exc]
                  /\ UNCHANGED parsed
             ELSE /\ parsed' = r.val
                  /\ IF op = "fetch_data"
                     THEN /\ pc' = "returned"
                          /\ outcome' = [kind |-> "return",
                                         val |-> <<r.val.results, r.val.gathered_features>>]
                     ELSE /\ pc' = "raised"
                          /\ outcome' = [kind |-> "raise",
                                         exc |-> Exc("AttributeError", "compute_statistics")]
    /\ UNCHANGED <<op, clients, heap, entry, api_choice, fetch_arg, endpoint_type, attempts,
                   last_exc, raw_data_package>>

\* the adapter used on its own, as its module's example does: fetch_data(features)
alpha_vantage_main(features) ==
    /\ pc = "idle"
    /\ op' = "fetch_data"
    /\ entry' = [kind |-> "dict", val |-> features]
    /\ heap' = [caller |-> [kind |-> "dict", val |-> features], copy |-> None]
    /\ fetch_arg' = "caller"
    /\ pc' = "av_fetch"
    /\ UNCHANGED <<clients, api_choice, endpoint_type, attempts, last_exc,
                   raw_data_package, parsed, outcome, log>>

----------------------------------------------------------------------------
(* Router: Ingestor *)

\* faulty variant: the Alpha Vantage adapter is registered too
Registry_WithAlphaVantage ==
    [name \in {"polygon", "alpha_vantage"} |->
        IF name = "polygon" THEN "PolygonClient" ELSE "AlphaVantageClient"]

\* Ingestor.__init__: the registry of adapters
Registry == [name \in {"polygon"} |-> "PolygonClient"]

\* the pc at which the fetch_data of an adapter class starts
FetchEntry(cl) == IF cl = "PolygonClient" THEN "polygon_fetch" ELSE "av_fetch"

\* faulty variant: the routing key is ignored
ApiChoice_AlwaysDefault(features) == "polygon"

\* features.pop('api', 'polygon') with its default
ApiChoice(features) == Get(features, "api", "polygon")

\* faulty variant: the statistics are left out of the result
ReturnValue_Pair(results, gathered_features, stats) == <<results, gathered_features>>

\* line 38: `return results,gathered_features,stats`
ReturnValue(results, gathered_features, stats) == <<results, gathered_features, stats>>

NoHeap == [caller |-> None, copy |-> None]

Init ==
    /\ pc = "idle"
    /\ op = "none"
    /\ clients = Registry
    /\ heap = NoHeap
    /\ entry = None
    /\ api_choice = "none"
    /\ fetch_arg = "none"
    /\ endpoint_type = 0
    /\ attempts = 0
    /\ last_exc = None
    /\ raw_data_package = None
    /\ parsed = None
    /\ outcome = None
    /\ log = <<>>

\* process_features, lines 24-31: copy, pop the routing key, look the adapter up
\* and call its fetch_data
process_features(input) ==
    /\ pc = "idle"
    /\ op' = "process_features"
    /\ entry' = input
    /\ IF input.kind = "list"
       THEN \* list.copy() succeeds; list.pop('api', 'polygon') raises TypeError
            /\ heap' = [caller |-> input, copy |-> input]
            /\ pc' = "raised"
            /\ outcome' = [kind |-> "raise", exc |-> Exc("TypeError", "pop expected at most 1 argument")]
            /\ UNCHANGED <<api_choice, fetch_arg>>
       ELSE LET features == input.val
                copied == [kind |-> "dict", val |-> Copy(features)]
                popped == [kind |-> "dict", val |-> Popped(features, "api")]
                choice == ApiChoice(features)
            IN \* original_features is the copy; the pop acts on `features` itself
               /\ heap' = [caller |-> popped, copy |-> copied]
               /\ api_choice' = choice
               /\ IF choice \notin DOMAIN clients
                  THEN /\ pc' = "raised"
                       /\ outcome' = [kind |-> "raise", exc |-> Exc("ValueError", "No client found for API")]
                       /\ UNCHANGED fetch_arg
                  ELSE /\ pc' = FetchEntry(clients[choice])
                       /\ fetch_arg' = "caller"
                       /\ UNCHANGED outcome
    /\ UNCHANGED <<clients, endpoint_type, attempts, last_exc, raw_data_package, parsed, log>>

\* process_features line 32 with PolygonClient.parse_response
polygon_parse_response ==
    /\ pc = "polygon_parse"
    /\ LET response == AsDictOrList(raw_data_package.data)
           used_features == heap[raw_data_package.features].val
           et == Get(used_features, "endpoint_type", 0)
           df == DataFrame(ExtractRecords(response))
       IN /\ log' = Append(log, StageEvent("parse_response", "PolygonClient"))
          /\ IF et \notin DOMAIN parsers
             THEN /\ pc' = "raised"
                  /\ outcome' = [kind |-> "raise", exc |-> Exc("ValueError", "No parser available")]
                  /\ UNCHANGED parsed
             ELSE /\ pc' = StageAfter("parse_response")
                  /\ parsed' = [results |-> df, gathered_features |-> parsers[et]]
                  /\ UNCHANGED outcome
    /\ UNCHANGED <<op, clients, heap, entry, api_choice, fetch_arg, endpoint_type, attempts,
                   last_exc, raw_data_package>>

\* process_features lines 33-38 with PolygonClient.compute_statistics: describe()
\* refuses a frame without columns; whether skew() refuses a text column
\* depends on the installed pandas
polygon_compute_statistics ==
    /\ pc = "polygon_stats"
    /\ log' = Append(log, StageEvent("compute_statistics", "PolygonClient"))
    /\ LET df == parsed.results
       IN \/ /\ df.columns = {}
             /\ pc' = "raised"
             /\ outcome' = [kind |-> "raise", exc |-> Exc("ValueError", "Cannot describe a DataFrame without columns")]
          \/ /\ df.columns \cap NonNumeric # {}
             /\ pc' = "raised"
             /\ outcome' = [kind |-> "raise", exc |-> Exc("TypeError", "could not convert string to float")]
          \/ /\ df.columns # {}
             /\ pc' = StageAfter("compute_statistics")
             /\ outcome' = [kind |-> "return",
                            val |-> ReturnValue(df, parsed.gathered_features, Statistics(df))]
    /\ UNCHANGED <<op, clients, heap, entry, api_choice, fetch_arg, endpoint_type, attempts,
                   last_exc, raw_data_package, parsed>>

\* the caller has the result or the exception; the per-call objects are dropped
\* and the router is ready for the next call
caller_continues ==
    /\ pc \in {"returned", "raised"}
    /\ pc' = "idle"
    /\ heap' = NoHeap
    /\ entry' = None
    /\ api_choice' = "none"
    /\ fetch_arg' = "none"
    /\ endpoint_type' = 0
    /\ attempts' = 0
    /\ last_exc' = None
    /\ raw_data_package' = None
    /\ parsed' = None
    /\ outcome' = None
    /\ log' = <<>>
    /\ op' = "none"
    /\ UNCHANGED clients

Next ==
    \/ \E input \in Inputs : process_features(input)
    \/ polygon_fetch_data_begin
    \/ polygon_fetch_attempt
    \/ polygon_fetch_sleep
    \/ polygon_parse_response
    \/ polygon_compute_statistics
    \/ \E features \in AVRequests : alpha_vantage_main(features)
    \/ av_fetch_data
    \/ av_parse_response
    \/ caller_continues

Spec == Init /\ [][Next]_vars

----------------------------------------------------------------------------
(* Properties *)

IsCall(e) == e.op = "call"
IsCallOrSleep(e) == e.op \in {"call", "sleep"}
IsStage(e) == e.op = "stage"
IsHttp(e) == e.op = "http_get"

\* the attempts of the Polygon fetch so far, and its attempts and sleeps in order
Calls == SelectSeq(log, IsCall)
FetchSteps == SelectSeq(log, IsCallOrSleep)
Stages == SelectSeq(log, IsStage)
HttpGets == SelectSeq(log, IsHttp)

\* a router call on a single request is in progress or has just ended
RouterCall == op = "process_features" /\ entry.kind = "dict"

\* the Polygon fetch of the current call has ended by raising
PolygonFetchRaised ==
    /\ pc = "raised"
    /\ Stages # <<>>
    /\ Stages[Len(Stages)] = StageEvent("fetch_data", "PolygonClient")

\* C1: whether process_features returns or raises, the caller's request object
\* still holds every item it had on entry (`api` included), and what is handed
\* to the adapter is the copy, not the caller's object.
C1_CallerRequestUnmodified ==
    RouterCall =>
        /\ heap.caller = entry
        /\ (pc \in {"returned", "raised"} /\ fetch_arg # "none") => fetch_arg = "copy"

\* C2: the response of the first successful attempt among the first three is
\* the one in the returned envelope, no attempt follows a success, and two
\* failures do not end the fetch: after failures on attempts 1 and 2 a success
\* on attempt 3 is returned without an error.
C2_FirstSuccessReturned ==
    /\ \A i \in 1 .. Len(Calls) - 1 : ~Calls[i].ok
    /\ (Calls # <<>> /\ Calls[Len(Calls)].ok) =>
          /\ Len(Calls) <= 3
          /\ raw_data_package = [data |-> Calls[Len(Calls)].val, features |-> fetch_arg]
          /\ ~PolygonFetchRaised
          /\ pc = "polygon_parse" => outcome = None
    /\ (Len(Calls) \in {1, 2} /\ ~Calls[Len(Calls)].ok) =>
          /\ pc \in {"polygon_sleep", "polygon_attempt"}
          /\ outcome = None

C2_Witness ==
    /\ Len(Calls) = 3
    /\ ~Calls[1].ok /\ ~Calls[2].ok /\ Calls[3].ok
    /\ pc = "polygon_parse"
    /\ raw_data_package.data = Calls[3].val
    /\ raw_data_package.data # [shape |-> "list", recs |-> <<>>]

\* C3: at most 3 provider calls per request; a failed attempt is retried
\* whatever was raised; a 2-second sleep lies exactly between consecutive
\* attempts (none after a success, none after the 3rd failure); when all 3
\* attempts raise, the 3rd exception reaches the caller as it was raised and
\* no envelope exists.
C3_RetryPolicy ==
    /\ Len(Calls) <= 3
    /\ Len(FetchSteps) <= 5
    /\ \A i \in 1 .. Len(FetchSteps) :
          IF i % 2 = 1
          THEN /\ FetchSteps[i].op = "call"
               /\ i < Len(FetchSteps) => ~FetchSteps[i].ok
          ELSE /\ FetchSteps[i] = [op |-> "sleep", secs |-> 2]
               /\ i = Len(FetchSteps) => pc = "polygon_attempt"
    /\ (Len(Calls) \in {1, 2} /\ ~Calls[Len(Calls)].ok /\ Len(FetchSteps) % 2 = 1) =>
          pc = "polygon_sleep"
    /\ (Len(Calls) = 3 /\ ~Calls[3].ok) =>
          /\ pc = "raised"
          /\ outcome = [kind |-> "raise", exc |-> Calls[3].val]
          /\ raw_data_package = None
          /\ log[Len(log)] = Calls[3]

C3_Witness ==
    /\ Len(Calls) = 3
    /\ ~Calls[3].ok
    /\ Calls[1].val.type = "KeyError" \/ Calls[1].val # Calls[3].val
    /\ Len(FetchSteps) = 5
    /\ pc = "raised"

\* the provider call the claim assigns to each supported endpoint_type
ExpectedMethod(e) ==
    CASE e = 0 -> "get_aggs"
      [] e = 1 -> "get_grouped_daily_aggs"
      [] e = 2 -> "get_daily_open_close_agg"
      [] e = 3 -> "get_previous_close_agg"

\* the endpoint_type of the request being fetched (0 when the key is absent)
RequestedEndpoint == Get(heap.caller.val, "endpoint_type", 0)

PolygonFetchStarted ==
    RouterCall /\ Stages # <<>> /\ Stages[1] = StageEvent("fetch_data", "PolygonClient")

\* C4: for endpoint_type 0, 1, 2, 3 (0 when absent) every attempt goes to the
\* provider call of that value, the four calls being pairwise distinct; any
\* other value is rejected with the invalid-endpoint error before any attempt,
\* provider call or sleep.
C4_EndpointDispatch ==
    PolygonFetchStarted =>
        /\ Cardinality({ EndpointFor(e).method : e \in 0 .. 3 }) = 4
        /\ RequestedEndpoint \in 0 .. 3 =>
              /\ \A i \in 1 .. Len(Calls) : Calls[i].method = ExpectedMethod(RequestedEndpoint)
              /\ ~(pc = "raised" /\ Calls = <<>>)
        /\ RequestedEndpoint \notin 0 .. 3 =>
              /\ pc = "raised"
              /\ outcome = [kind |-> "raise",
                            exc |-> [type |-> "ValueError", msg |-> <<"Invalid endpoint_type">>]]
              /\ FetchSteps = <<>>
              /\ attempts = 0
              /\ raw_data_package = None

C4_Witness ==
    /\ PolygonFetchStarted
    /\ "endpoint_type" \in DOMAIN heap.caller.val
    /\ RequestedEndpoint = 3
    /\ Calls # <<>>
    /\ Calls[1].invoked
    /\ Calls[1].method = "get_previous_close_agg"

\* the provider a request names (the claim's fallback when `api` is absent)
NamedProvider == Get(entry.val, "api", "polygon")

UnknownProviderRaised ==
    /\ pc = "raised"
    /\ outcome = [kind |-> "raise",
                  exc |-> [type |-> "ValueError", msg |-> <<"No client found for API">>]]

AdapterOf(provider) ==
    CASE provider = "polygon" -> "PolygonClient"
      [] provider = "alpha_vantage" -> "AlphaVantageClient"
      [] OTHER -> "none"

C6_UnknownProviderFatal ==
    (RouterCall /\ NamedProvider \notin DOMAIN clients) =>
        /\ UnknownProviderRaised
        /\ log = <<>>
        /\ fetch_arg = "none"
        /\ attempts = 0
        /\ raw_data_package = None
        /\ parsed = None

C6_Witness ==
    /\ RouterCall
    /\ "api" \in DOMAIN entry.val
    /\ entry.val["api"] = "bogus"
    /\ UnknownProviderRaised

\* the number of requests the caller handed in
NumRequests == IF entry.kind = "list" THEN Len(entry.val) ELSE 1

AVCall == op = "fetch_data" /\ pc # "av_fetch"

\* the Alpha Vantage fetch of the current call ended by raising
AVFetchRaised == AVCall /\ pc = "raised" /\ Len(Stages) = 1

\* C8: for an intraday timespan the outgoing request has `interval` equal to
\* the timespan; its output size is compact when neither `month` nor
\* `outputsize` is given; and it is full whenever `month` is given, whatever
\* `outputsize` the caller supplied.
C8_MonthForcesFull ==
    (AVCall /\ HttpGets # <<>> /\ "timespan" \in DOMAIN entry.val
       /\ entry.val["timespan"] \in IntradayTimespans) =>
        LET sent == HttpGets[1].params
        IN /\ "interval" \in DOMAIN sent
           /\ sent["interval"] = entry.val["timespan"]
           /\ ({"month", "outputsize"} \cap DOMAIN entry.val = {}) => sent["outputsize"] = "compact"
           /\ "month" \in DOMAIN entry.val => sent["outputsize"] = "full"

\* the HTTP answer of the current Alpha Vantage fetch
Answer == HttpGets[1].http

ErrorCarries(text) == \E i \in 1 .. Len(outcome.exc.msg) : outcome.exc.msg[i] = text

\* the classification of an answer, common to the claim and its amendment
AVClassified ==
    /\ (Answer.json /\ Answer.status \in 200 .. 299 /\ DOMAIN Answer.body = {}) => AVFetchRaised
    /\ (Answer.json /\ Answer.status \in 200 .. 299 /\ "Error Message" \in DOMAIN Answer.body) =>
          /\ AVFetchRaised
          /\ ErrorCarries(Answer.body["Error Message"].text)
    /\ (Answer.json /\ Answer.status \in 200 .. 299
          /\ DOMAIN Answer.body # {} /\ "Error Message" \notin DOMAIN Answer.body) =>
          /\ ~AVFetchRaised
          /\ raw_data_package = [data |-> Answer.body, features |-> "caller"]
          /\ heap.caller = entry
    /\ AVFetchRaised => raw_data_package = None

\* the call gets as far as the HTTP request: a ticker and a supported timespan
AVWellFormed ==
    /\ "ticker" \in DOMAIN entry.val
    /\ Lower(Get(entry.val, "timespan", "day")) \in {"day", "week", "month"} \cup IntradayTimespans

\* C9 as stated: every fetch_data call that gets as far as the network issues
\* exactly one HTTP request (no retry); a non-2xx status, an empty payload and
\* a payload with an error message are
\* fatal (the error carrying the message); a payload whose only anomaly is a
\* rate-limit notice gives the envelope; a fatal outcome leaves no envelope.
C9_OneRequestNon2xxFatal ==
    AVCall =>
        /\ Len(HttpGets) <= 1
        /\ AVWellFormed => Len(HttpGets) = 1
        /\ HttpGets # <<>> =>
              /\ (Answer.kind = "response" /\ Answer.status \notin 200 .. 299) => AVFetchRaised
              /\ AVClassified

\* C9 amended: fetch_data issues at most one HTTP request per call, exactly one
\* once the ticker is present and the timespan supported, none otherwise; a 4xx
\* or 5xx status is fatal (a 3xx answer with a usable payload is not); an empty
\* payload and a
\* payload with an error message are fatal, the error carrying the message; a
\* payload whose only anomaly is a rate-limit notice gives the envelope; every
\* fatal outcome reaches the caller and leaves no envelope.
C9_OneRequest4xx5xxFatal ==
    AVCall =>
        /\ Len(HttpGets) <= 1
        /\ AVWellFormed => Len(HttpGets) = 1
        /\ ~AVWellFormed => (HttpGets = <<>> /\ AVFetchRaised)
        /\ HttpGets # <<>> =>
              /\ (Answer.kind = "response" /\ Answer.status \in 400 .. 599) => AVFetchRaised
              /\ (Answer.kind = "response" /\ Answer.json /\ Answer.status \in 300 .. 399
                    /\ DOMAIN Answer.body # {} /\ "Error Message" \notin DOMAIN Answer.body) =>
                    /\ ~AVFetchRaised
                    /\ raw_data_package = [data |-> Answer.body, features |-> "caller"]
              /\ AVClassified

C9_Witness ==
    /\ AVCall
    /\ HttpGets # <<>>
    /\ Answer.status = 300
    /\ DOMAIN Answer.body = {"Note"}
    /\ log[Len(log)] = [op |-> "warning", text |-> "rate limit"]
    /\ raw_data_package.data = Answer.body

\* the payload normalize was given
Payload == raw_data_package.data

AVParsed == AVCall /\ Len(Stages) = 2

NoMarkedKey(data) == \A k \in DOMAIN data : ~HasTimeSeriesMarker(k)

MetaDataGiven(data) ==
    "Meta Data" \in DOMAIN data /\ Len(data["Meta Data"].table.fields) > 0

EmptyCaseTaken == \E i \in 1 .. Len(log) : log[i] = [op |-> "warning", text |-> "No time series data found"]

\* C10: normalize on a payload with metadata but no key carrying the
\* time-series marker returns an empty dataset and an empty column list and
\* raises nothing; with neither such a key nor metadata it raises the
\* malformed-response error; with such a key it never takes the empty case.
C10_EmptyResult ==
    AVParsed =>
        /\ (NoMarkedKey(Payload) /\ MetaDataGiven(Payload)) =>
              /\ pc = "returned"
              /\ outcome = [kind |-> "return",
                            val |-> << [index |-> <<>>, columns |-> <<>>], <<>> >>]
              /\ EmptyCaseTaken
        /\ (NoMarkedKey(Payload) /\ ~MetaDataGiven(Payload)) =>
              /\ pc = "raised"
              /\ outcome.exc = [type |-> "ValueError",
                                msg |-> <<"Could not find time series data key">>]
        /\ ~NoMarkedKey(Payload) =>
              /\ ~EmptyCaseTaken
              /\ pc = "returned"
              /\ outcome.val[1].index =
                   SortIndex(Payload["Time Series (5min)"].table.index)

C10_Witness ==
    /\ AVParsed
    /\ DOMAIN Payload = {"Meta Data", "Note"}
    /\ MetaDataGiven(Payload)
    /\ pc = "returned"
    /\ outcome.val[2] = <<>>

\* the five canonical columns
Canonical == {"open", "high", "low", "close", "volume"}

\* the canonical columns the payload carries once the ordinal prefixes are
\* stripped (none when it has no time series)
CanonicalPresent ==
    IF "Time Series (5min)" \in DOMAIN Payload
    THEN { StripPrefix(Payload["Time Series (5min)"].table.fields[i]) :
             i \in 1 .. Len(Payload["Time Series (5min)"].table.fields) } \cap Canonical
    ELSE {}

\* the columns the caller asked for (all five when `columns` is absent)
RequestedColumns ==
    IF "columns" \in DOMAIN entry.val
    THEN { entry.val["columns"][i] : i \in 1 .. Len(entry.val["columns"]) }
    ELSE Canonical

\* C11: the columns of the returned dataset and the returned column list are
\* exactly the canonical columns present in the payload that the caller also
\* requested (all five by default); a requested column the provider does not
\* expose is dropped without an error; the list equals the dataset's columns.
C11_ColumnIntersection ==
    (AVParsed /\ (NoMarkedKey(Payload) => MetaDataGiven(Payload))) =>
        /\ pc = "returned"
        /\ outcome.kind = "return"
        /\ SeqToSet(outcome.val[2]) = CanonicalPresent \cap RequestedColumns
        /\ outcome.val[1].columns = outcome.val[2]
        /\ "bogus" \notin SeqToSet(outcome.val[1].columns)
        /\ \A i, j \in 1 .. Len(outcome.val[2]) :
              i # j => outcome.val[2][i] # outcome.val[2][j]

C11_Witness ==
    /\ AVParsed
    /\ "columns" \in DOMAIN entry.val
    /\ entry.val["columns"] = <<"close", "bogus">>
    /\ CanonicalPresent = Canonical
    /\ pc = "returned"
    /\ outcome.val[2] = <<"close">>
    /\ outcome.val[1].columns = <<"close">>

\* the Polygon parse_response of the current router call has produced its frame
PolygonParsed ==
    /\ RouterCall
    /\ parsed # None
    /\ Len(Stages) >= 2
    /\ Stages[2] = StageEvent("parse_response", "PolygonClient")

\* the raw payload the Polygon fetch returned
RawPayload == raw_data_package.data

\* C12: whatever the shape of the raw payload, the dataset has one row per
\* logical record, in the payload's order, none lost and none added: n rows
\* for a mapping or object with n records under `results`, exactly 1 row for
\* a flat mapping or object without `results`, n rows for a bare list of n.
C12_ShapeCoercion ==
    PolygonParsed =>
        /\ RawPayload.shape \in {"dict_results", "object_results", "list"} =>
              /\ Len(parsed.results.rows) = Len(RawPayload.recs)
              /\ \A i \in 1 .. Len(RawPayload.recs) :
                    parsed.results.rows[i] = RawPayload.recs[i]
        /\ RawPayload.shape \in {"dict_flat", "object_flat"} =>
              /\ Len(parsed.results.rows) = 1
              /\ parsed.results.rows[1] = RawPayload.recs[1]

C12_Witness ==
    /\ PolygonParsed
    /\ RawPayload = [shape |-> "object_results", recs |-> <<Rec2, Rec1>>]
    /\ parsed.results.rows = <<Rec2, Rec1>>

\* the stages of process_features in the order of its lines 31, 32, 33
StageOrder == <<"fetch_data", "parse_response", "compute_statistics">>

\* no attempt or sleep of the fetch is logged after a later stage has started
FetchStepsInsideFetch ==
    \A i, j \in 1 .. Len(log) :
        (i < j /\ IsCallOrSleep(log[j])) =>
            ~(IsStage(log[i]) /\ log[i].name # "fetch_data")

\* what one router call on a single request has done so far
C13_StagesSoFar ==
    RouterCall =>
        /\ Len(Stages) <= 3
        /\ \A i \in 1 .. Len(Stages) :
              /\ Stages[i].name = StageOrder[i]
              /\ Stages[i].client = Stages[1].client
        /\ log # <<>> => IsStage(log[1])
        /\ FetchStepsInsideFetch
        /\ pc = "returned" => Len(Stages) = 3
        /\ Len(Stages) = 3 => parsed # None
        /\ Len(Stages) >= 2 =>
              /\ Calls # <<>>
              /\ Calls[Len(Calls)].ok
              /\ raw_data_package = Envelope(Calls[Len(Calls)].val, fetch_arg)
        /\ parsed # None =>
              /\ Len(Stages) >= 2
              /\ parsed.results = DataFrame(ExtractRecords(AsDictOrList(raw_data_package.data)))
              /\ parsed.gathered_features =
                    parsers[Get(heap[raw_data_package.features].val, "endpoint_type", 0)]
        /\ pc = "returned" =>
              /\ outcome.kind = "return"
              /\ outcome.val = <<parsed.results, parsed.gathered_features,
                                 Statistics(parsed.results)>>
        /\ pc = "raised" =>
              /\ outcome.kind = "raise"
              /\ Len(Stages) <= 1 => parsed = None
              /\ (Len(Stages) = 0 \/ Calls = <<>> \/ ~Calls[Len(Calls)].ok) =>
                    raw_data_package = None
        /\ pc \notin {"returned", "raised"} => outcome = None

\* a step of a router call adds one event to the log, and none once the call
\* has returned or raised (the log is cleared when the caller goes on)
C13_StageStep ==
    RouterCall =>
        \/ log' = log
        \/ log' = <<>> /\ pc \in {"returned", "raised"}
        \/ /\ pc \notin {"returned", "raised"}
           /\ Len(log') = Len(log) + 1
           /\ SubSeq(log', 1, Len(log)) = log

\* C13: within one process_features call the stages run in the order fetch
\* (with all its attempts and sleeps), normalize, statistics, each at most once
\* and on the output of the stage before it; normalize is given exactly the
\* envelope fetch returned; once a stage raises no later stage runs and the
\* caller gets the exception, not a result.
C13_StageOrder == [](C13_StagesSoFar) /\ [][C13_StageStep]_vars

C13_Witness ==
    /\ RouterCall
    /\ pc = "returned"
    /\ Len(Stages) = 3
    /\ Len(Calls) = 2
    /\ Len(FetchSteps) = 3
    /\ outcome.val[1] = DataFrame(Calls[2].val.recs)

====
